---- MODULE Spec2Model ----
(***************************************************************************)
(* A model of main.py: the WhatsApp-transcript to Spotify-playlist tool.   *)
(*                                                                         *)
(*   format_messages       reassembly of wrapped lines (SpecFormat)        *)
(*   convert_to_dataframe  tokenization of the records  (SpecTokenize)     *)
(*   create_playlist       synchronization of the playlist (SpecSync)      *)
(*                                                                         *)
(* Text is a sequence of one-character strings; a track URI is an opaque   *)
(* identifier, modelled as a natural number.                               *)
(***************************************************************************)
EXTENDS Integers, Sequences, FiniteSets

VARIABLES
    pc,          \* position in the function being run
    raw_text,    \* format_whatsapp_conversation: the lines as read
    text,        \* format_messages / convert_to_dataframe: the working list
    i,           \* format_messages / convert_to_dataframe: the loop counter
    length,      \* format_messages: the loop bound
    rows,        \* convert_to_dataframe: the (date, time, sender, message) rows
    desired,     \* create_playlist: the argument tracks
    tracks,      \* create_playlist: the local variable tracks
    playlists,   \* the user's playlists on the remote service
    playlist_id, \* create_playlist: the id obtain_playlist_id returned
    current,     \* create_playlist: current_tracks_in_playlist
    counter,     \* add_items_to_playlist: the chunk counter
    run,         \* which of two consecutive create_playlist runs is executing
    calls,       \* the requests sent to the remote service, in order
    TRACKS,      \* p.TRACKS: links to tracks are enabled
    ALBUMS,      \* p.ALBUMS: links to albums are enabled
    messages,    \* select_rows: the Message column of df
    spotify_df,  \* select_rows: the Message column of spotify_df
    url_list,    \* obtain_all_urls: spotify_list, the argument of convert_url_to_uri
    uri_list,    \* convert_url_to_uri: uri_list, the argument of convert_albums_to_tracks
    track_uri_list, \* convert_albums_to_tracks
    album_uri_list, \* convert_albums_to_tracks
    pos,         \* the position of the for loop being run
    lookups,     \* the album requests sent to the catalog and their responses
    result       \* what convert_url_to_uri returns: the tracks of create_playlist

uriVars == <<TRACKS, ALBUMS, messages, spotify_df, url_list, uri_list,
             track_uri_list, album_uri_list, pos, lookups, result>>

vars == <<pc, raw_text, text, i, length, rows, desired, tracks, playlists,
          playlist_id, current, counter, run, calls, uriVars>>

formatVars == <<raw_text, text, i, length, rows>>
syncVars == <<desired, tracks, playlists, playlist_id, current, counter, run, calls>>

----------------------------------------------------------------------------
(* Bounds of the model.                                                    *)

\* longest desired list of distinct identifiers
MaxLen == 250
\* short desired lists: every list over 1..MaxIds of length <= MaxShort
MaxShort == 3
MaxIds == 3
\* most members of the target playlist before the first run
MaxMembers == 2
\* sets of at most MaxPerm elements are listed in every order
MaxPerm == 3

Min(a, b) == IF a < b THEN a ELSE b

None == "None"

NoFormat ==
    /\ raw_text = <<>>
    /\ text = <<>>
    /\ i = 0
    /\ length = 0
    /\ rows = <<>>

NoSync ==
    /\ desired = <<>>
    /\ tracks = <<>>
    /\ playlists = <<>>
    /\ playlist_id = None
    /\ current = <<>>
    /\ counter = 0
    /\ run = 0
    /\ calls = <<>>

NoUri ==
    /\ TRACKS = FALSE
    /\ ALBUMS = FALSE
    /\ messages = <<>>
    /\ spotify_df = <<>>
    /\ url_list = <<>>
    /\ uri_list = <<>>
    /\ track_uri_list = <<>>
    /\ album_uri_list = <<>>
    /\ pos = 0
    /\ lookups = <<>>
    /\ result = <<>>

----------------------------------------------------------------------------
(* Text: Python's str operations on sequences of characters                *)

COMMA == <<",">>
\* the separators of convert_to_dataframe: ', ', ' - ' and ': '
SEP1 == <<",", " ">>
SEP2 == <<" ", "-", " ">>
SEP3 == <<":", " ">>

\* whether sep occurs in s at position k
OccursAt(s, sep, k) ==
    /\ k + Len(sep) - 1 <= Len(s)
    /\ \A j \in 1..Len(sep) : s[k + j - 1] = sep[j]

\* the position of the first occurrence of sep in s, or 0
Find(s, sep) ==
    IF \E k \in 1..Len(s) : OccursAt(s, sep, k)
    THEN CHOOSE k \in 1..Len(s) :
            /\ OccursAt(s, sep, k)
            /\ \A j \in 1..(k - 1) : ~OccursAt(s, sep, j)
    ELSE 0

RECURSIVE Split(_, _)
\* s.split(sep): the parts between the occurrences of sep, left to right
Split(s, sep) ==
    LET k == Find(s, sep)
    IN  IF k = 0
        THEN <<s>>
        ELSE <<SubSeq(s, 1, k - 1)>> \o Split(SubSeq(s, k + Len(sep), Len(s)), sep)

RECURSIVE Join(_)
\* ''.join(parts)
Join(parts) == IF parts = <<>> THEN <<>> ELSE Head(parts) \o Join(Tail(parts))

\* s.count(ch)
Count(s, ch) == Cardinality({k \in 1..Len(s) : s[k] = ch})

\* x.replace('\n', ' ')
ReplaceEnter(x) == [k \in 1..Len(x) |-> IF x[k] = "\n" THEN " " ELSE x[k]]

----------------------------------------------------------------------------
(* format_whatsapp_conversation                                            *)

\* the literals of the date criterion, line 99
DATE_LEN == 8
DATE_SLASHES == 2

\* replace_enters
replace_enters(lines) == [k \in 1..Len(lines) |-> ReplaceEnter(lines[k])]

\* line 97: the element which should be a date
next_date_element(fragment) == Split(fragment, COMMA)[1]

\* line 99 with < in place of <=
IsDateShorter(fragment) ==
    /\ Len(next_date_element(fragment)) < DATE_LEN
    /\ Count(next_date_element(fragment), "/") = DATE_SLASHES

\* line 99: the criteria for a date
IsDate(fragment) ==
    /\ Len(next_date_element(fragment)) <= DATE_LEN
    /\ Count(next_date_element(fragment), "/") = DATE_SLASHES

\* line 104 keeping only the first of the two fragments
MergeDropSecond(t, k) ==
    SubSeq(t, 1, k) \o <<t[k + 1]>> \o SubSeq(t, k + 3, Len(t))

\* line 104: text[i:i+2] = [''.join(text[i:i+2])], i counted from 0
Merge(t, k) ==
    SubSeq(t, 1, k) \o <<t[k + 1] \o t[k + 2]>> \o SubSeq(t, k + 3, Len(t))

\* line 160
ReplaceEnters ==
    /\ pc = "replace"
    /\ text' = replace_enters(raw_text)
    /\ pc' = "fm_enter"
    /\ UNCHANGED <<raw_text, i, length, rows, syncVars, uriVars>>

\* lines 90-91
FormatMessages ==
    /\ pc = "fm_enter"
    /\ length' = Len(text) - 2
    /\ i' = 0
    /\ pc' = "fm_while"
    /\ UNCHANGED <<raw_text, text, rows, syncVars, uriVars>>

\* line 94, and the return of line 107
FmWhile ==
    /\ pc = "fm_while"
    /\ \/ /\ i <= length
          /\ pc' = "fm_peek"
       \/ /\ ~(i <= length)
          /\ pc' = "fm_done"
    /\ UNCHANGED <<raw_text, text, i, length, rows, syncVars, uriVars>>

\* lines 96-105, one pass of the inner loop; text[i+1] raises IndexError
\* when i+1 is not an index of text
FmPeek ==
    /\ pc = "fm_peek"
    /\ \/ /\ i + 1 >= Len(text)
          /\ pc' = "fm_IndexError"
          /\ UNCHANGED <<text, i, length>>
       \/ /\ i + 1 < Len(text)
          /\ IsDate(text[i + 2])
          /\ i' = i + 1
          /\ pc' = "fm_while"
          /\ UNCHANGED <<text, length>>
       \/ /\ i + 1 < Len(text)
          /\ ~IsDate(text[i + 2])
          /\ text' = Merge(text, i)
          /\ length' = length - 1
          /\ pc' = "fm_peek"
          /\ UNCHANGED i
    /\ UNCHANGED <<raw_text, rows, syncVars, uriVars>>

\* lines 131-132
S1(record) ==
    LET s1 == Split(record, SEP1)
    IN  IF Len(s1) > 2 THEN <<s1[1], Join(Tail(s1))>> ELSE s1

\* lines 134-135, for a record where s1[1] exists
S2(record) ==
    LET s2 == Split(S1(record)[2], SEP2)
    IN  IF Len(s2) > 2 THEN <<s2[1], Join(Tail(s2))>> ELSE s2

\* lines 137-142 with split(':') in place of split(': ')
S3Colon(record) ==
    LET s3 == Split(S2(record)[2], <<":">>)
        s3a == IF Len(s3) = 1 THEN <<<<>>, s3[1]>> ELSE s3
    IN  IF Len(s3a) > 2 THEN <<s3a[1], Join(Tail(s3a))>> ELSE s3a

\* lines 137-142, for a record where s2[1] exists
S3(record) ==
    LET s3 == Split(S2(record)[2], SEP3)
        s3a == IF Len(s3) = 1 THEN <<<<>>, s3[1]>> ELSE s3
    IN  IF Len(s3a) > 2 THEN <<s3a[1], Join(Tail(s3a))>> ELSE s3a

\* s1[1] at line 134 or s2[1] at line 137 raises IndexError
RaisesIndexError(record) ==
    IF Len(S1(record)) < 2 THEN TRUE ELSE Len(S2(record)) < 2

\* lines 145-148
Row(record) ==
    [date |-> S1(record)[1], time |-> S2(record)[1],
     sender |-> S3(record)[1], message |-> S3(record)[2]]

\* line 166 and lines 123-126
ConvertToDataframe ==
    /\ pc = "fm_done"
    /\ rows' = <<>>
    /\ i' = 0
    /\ pc' = "df_for"
    /\ UNCHANGED <<raw_text, text, length, syncVars, uriVars>>

\* lines 129-148, one pass of the loop, and the return of line 156
DfFor ==
    /\ pc = "df_for"
    /\ \/ /\ i < Len(text)
          /\ RaisesIndexError(text[i + 1])
          /\ pc' = "df_IndexError"
          /\ UNCHANGED <<i, rows>>
       \/ /\ i < Len(text)
          /\ ~RaisesIndexError(text[i + 1])
          /\ rows' = Append(rows, Row(text[i + 1]))
          /\ i' = i + 1
          /\ pc' = "df_for"
       \/ /\ ~(i < Len(text))
          /\ pc' = "df_done"
          /\ UNCHANGED <<i, rows>>
    /\ UNCHANGED <<raw_text, text, length, syncVars, uriVars>>

\* a date, and the fields of a message
DATE == <<"1", "/", "2", "/", "3">>
TIME == <<"t">>
SENDER == <<"s">>
BODY == <<"b">>

\* a message on one line, with and without a sender
MESSAGE == DATE \o SEP1 \o TIME \o SEP2 \o SENDER \o SEP3 \o BODY
NOTICE == DATE \o SEP1 \o TIME \o SEP2 \o BODY

\* the lines a transcript is made of, without their line terminator
Fragments ==
    { MESSAGE,                                   \* a message
      <<"1", "2", "3">> \o NOTICE,               \* a date of 8 characters
      DATE,                                      \* a date and nothing else
      <<"1", "2", "3", "4">> \o NOTICE,          \* 9 characters before the comma
      BODY,                                      \* plain continuation text
      <<"1", "/", "2">> \o SEP1 \o BODY,         \* one '/' before the comma
      DATE \o <<"/", "4">> \o SEP1 \o BODY,      \* three '/' before the comma
      BODY \o SEP1 \o DATE,                      \* a date after the comma
      <<>> }                                     \* an empty line

\* the records convert_to_dataframe is given
Records ==
    { MESSAGE,
      NOTICE,
      BODY,                                      \* no ', '
      DATE \o COMMA \o BODY,                     \* a comma, but no ', '
      DATE \o SEP1 \o BODY,                      \* no ' - '
      BODY \o SEP2 \o DATE \o SEP1 \o BODY,      \* ' - ' only before ', '
      MESSAGE \o SEP1 \o BODY,                   \* a second ', '
      MESSAGE \o SEP2 \o BODY,                   \* a second ' - '
      MESSAGE \o SEP3 \o BODY,                   \* a second ': '
      DATE \o SEP1 \o TIME \o SEP2 \o SEP3 \o BODY, \* an empty sender
      DATE \o COMMA \o SEP2 \o SENDER \o SEP3 \o BODY, \* ', ' and ' - ' overlap
      SENDER \o SEP3 \o BODY \o SEP1 \o TIME \o SEP2 \o BODY, \* ': ' comes first
      <<>> }

\* transcripts of at most MaxFrags lines, lists of at most MaxRecords records
MaxFrags == 3
MaxRecords == 2

SeqsUpTo(S, n) == UNION {[1..k -> S] : k \in 0..n}

InitFormat ==
    /\ pc = "replace"
    /\ \E t \in SeqsUpTo(Fragments, MaxFrags) :
          raw_text = [k \in 1..Len(t) |-> t[k] \o <<"\n">>]
    /\ text = <<>>
    /\ i = 0
    /\ length = 0
    /\ rows = <<>>
    /\ NoSync
    /\ NoUri

NextFormat ==
    \/ ReplaceEnters
    \/ FormatMessages
    \/ FmWhile
    \/ FmPeek
    \/ ConvertToDataframe
    \/ DfFor

SpecFormat == InitFormat /\ [][NextFormat]_vars

InitTokenize ==
    /\ pc = "df_for"
    /\ raw_text = <<>>
    /\ text \in SeqsUpTo(Records, MaxRecords)
    /\ i = 0
    /\ length = 0
    /\ rows = <<>>
    /\ NoSync
    /\ NoUri

NextTokenize == DfFor

SpecTokenize == InitTokenize /\ [][NextTokenize]_vars

----------------------------------------------------------------------------
(* create_playlist                                                         *)

\* p.PLAYLIST_NAME, and the name of some other playlist of the user
PLAYLIST_NAME == "target"
OTHER_NAME == "other"

\* the literal 100 of add_items_to_playlist
PAGE == 100

Range(s) == {s[k] : k \in 1..Len(s)}

\* s[a:b] of Python, for 0 <= a <= b
Slice(s, a, b) == SubSeq(s, Min(a, Len(s)) + 1, Min(b, Len(s)))

Reverse(s) == [k \in 1..Len(s) |-> s[Len(s) + 1 - k]]

Ascending(S) == SelectSeq([k \in 1..(MaxLen + MaxIds) |-> k], LAMBDA x : x \in S)

Orderings(S) ==
    {f \in [1..Cardinality(S) -> S] : \A x \in S : \E k \in 1..Cardinality(S) : f[k] = x}

\* list(S): the iteration order of a Python set is not specified
ListsOfSet(S) ==
    IF Cardinality(S) <= MaxPerm
    THEN Orderings(S)
    ELSE {Ascending(S), Reverse(Ascending(S))}

\* obtain_new_tracks without the set difference
obtain_new_tracks_no_difference(t, already_added_tracks) ==
    ListsOfSet(Range(t))

\* obtain_new_tracks
obtain_new_tracks(t, already_added_tracks) ==
    ListsOfSet(Range(t) \ Range(already_added_tracks))

\* obtain_playlist_id without the comparison of the name
obtain_playlist_id_any_name(name) ==
    IF playlists # <<>> THEN playlists[1].id ELSE None

\* the first playlist with that name, or None
obtain_playlist_id(name) ==
    IF \E k \in 1..Len(playlists) : playlists[k].name = name
    THEN playlists[CHOOSE k \in 1..Len(playlists) :
                     /\ playlists[k].name = name
                     /\ \A j \in 1..(k - 1) : playlists[j].name # name].id
    ELSE None

\* get_users_playlists: the names of the user's playlists; the response is
\* taken to list every playlist
get_users_playlists == [k \in 1..Len(playlists) |-> playlists[k].name]

\* get_playlist_items: the uris of the playlist with that id; the response is
\* taken to list every member (the listMembers contract of the service)
get_playlist_items(id) ==
    LET k == CHOOSE j \in 1..Len(playlists) : playlists[j].id = id
    IN  playlists[k].uris

Call(op, id, uris) == [op |-> op, run |-> run, id |-> id, uris |-> uris]

\* make_request with a request which replaces the members
make_request_replace(uris, id) ==
    /\ calls' = Append(calls, Call("append", id, uris))
    /\ playlists' = [k \in 1..Len(playlists) |->
                       IF playlists[k].id = id
                       THEN [playlists[k] EXCEPT !.uris = uris]
                       ELSE playlists[k]]

\* make_request: POST playlists/{playlist_id}/tracks appends the uris
make_request(uris, id) ==
    /\ calls' = Append(calls, Call("append", id, uris))
    /\ playlists' = [k \in 1..Len(playlists) |->
                       IF playlists[k].id = id
                       THEN [playlists[k] EXCEPT !.uris = @ \o uris]
                       ELSE playlists[k]]

\* lines 469-471: list the playlists and branch on the name
GetUsersPlaylists ==
    /\ pc = "start"
    /\ calls' = Append(calls, Call("list_playlists", None, <<>>))
    /\ pc' = IF \E k \in 1..Len(get_users_playlists) :
                   get_users_playlists[k] = PLAYLIST_NAME
             THEN "exists_id" ELSE "create"
    /\ UNCHANGED <<formatVars, uriVars, desired, tracks, playlists, playlist_id, current,
                   counter, run>>

\* lines 475 and 496
ObtainPlaylistId ==
    /\ pc \in {"exists_id", "created_id"}
    /\ calls' = Append(calls, Call("list_playlists", None, <<>>))
    /\ playlist_id' = obtain_playlist_id(PLAYLIST_NAME)
    /\ pc' = IF pc = "exists_id" THEN "get_items" ELSE "add"
    /\ UNCHANGED <<formatVars, uriVars, desired, tracks, playlists, current, counter, run>>

\* line 478
GetPlaylistItems ==
    /\ pc = "get_items"
    /\ calls' = Append(calls, Call("list_members", playlist_id, <<>>))
    /\ current' = get_playlist_items(playlist_id)
    /\ pc' = "new_tracks"
    /\ UNCHANGED <<formatVars, uriVars, desired, tracks, playlists, playlist_id, counter, run>>

\* lines 481-488
ObtainNewTracks ==
    /\ pc = "new_tracks"
    /\ \E t \in obtain_new_tracks(tracks, current) :
          /\ tracks' = t
          /\ pc' = IF t # <<>> THEN "add" ELSE "done"
    /\ UNCHANGED <<formatVars, uriVars, desired, playlists, playlist_id, current, counter,
                   run, calls>>

\* line 493: the new playlist is empty; where the service lists it is its choice
CreatePlaylistOnSpotify ==
    /\ pc = "create"
    /\ LET new == [name |-> PLAYLIST_NAME, id |-> Len(playlists) + 1, uris |-> <<>>]
       IN  \/ playlists' = <<new>> \o playlists
           \/ playlists' = Append(playlists, new)
    /\ calls' = Append(calls, Call("create", None, <<>>))
    /\ pc' = "created_id"
    /\ UNCHANGED <<formatVars, uriVars, desired, tracks, playlist_id, current, counter, run>>

\* add_items_to_playlist, lines 457-460
AddItems ==
    /\ pc = "add"
    /\ IF Len(tracks) <= PAGE
       THEN /\ make_request(tracks, playlist_id)
            /\ pc' = "done"
            /\ UNCHANGED counter
       ELSE /\ counter' = 0
            /\ pc' = "add_loop"
            /\ UNCHANGED <<playlists, calls>>
    /\ UNCHANGED <<formatVars, uriVars, desired, tracks, playlist_id, current, run>>

\* lines 461-463 with a slice one element too long
AddItemsLoopLongSlice ==
    /\ pc = "add_loop"
    /\ IF counter * PAGE <= Len(tracks)
       THEN /\ make_request(Slice(tracks, counter * PAGE, (counter + 1) * PAGE + 1),
                            playlist_id)
            /\ counter' = counter + 1
            /\ pc' = "add_loop"
       ELSE /\ pc' = "done"
            /\ UNCHANGED <<playlists, calls, counter>>
    /\ UNCHANGED <<formatVars, uriVars, desired, tracks, playlist_id, current, run>>

\* add_items_to_playlist, lines 461-463
AddItemsLoop ==
    /\ pc = "add_loop"
    /\ IF counter * PAGE <= Len(tracks)
       THEN /\ make_request(Slice(tracks, counter * PAGE, (counter + 1) * PAGE),
                            playlist_id)
            /\ counter' = counter + 1
            /\ pc' = "add_loop"
       ELSE /\ pc' = "done"
            /\ UNCHANGED <<playlists, calls, counter>>
    /\ UNCHANGED <<formatVars, uriVars, desired, tracks, playlist_id, current, run>>

\* create_playlist is called again with the same tracks
SecondRun ==
    /\ pc = "done"
    /\ run = 1
    /\ run' = 2
    /\ tracks' = desired
    /\ playlist_id' = None
    /\ current' = <<>>
    /\ counter' = 0
    /\ pc' = "start"
    /\ UNCHANGED <<formatVars, uriVars, desired, playlists, calls>>

\* the lists over 1..MaxIds of length at most MaxShort
ShortLists == UNION {[1..n -> 1..MaxIds] : n \in 0..MaxShort}

\* the lists 1, 2, ..., n of distinct identifiers
LongLists == {[k \in 1..n |-> k] : n \in 0..MaxLen}

\* the member lists of the target playlist before the first run
MemberLists == UNION {[1..n -> 1..MaxIds] : n \in 0..MaxMembers}

\* the user's playlists before the first run: the target absent or present,
\* next to another playlist or not
RemoteStates ==
    LET other == [name |-> OTHER_NAME, id |-> 1, uris |-> <<1>>]
        target(id, m) == [name |-> PLAYLIST_NAME, id |-> id, uris |-> m]
    IN  {<<>>, <<other>>}
        \cup {<<target(1, m)>> : m \in MemberLists}
        \cup {<<other, target(2, m)>> : m \in MemberLists}

InitSync ==
    /\ pc = "start"
    /\ NoFormat
    /\ desired \in ShortLists \cup LongLists
    /\ tracks = desired
    /\ playlists \in RemoteStates
    /\ playlist_id = None
    /\ current = <<>>
    /\ counter = 0
    /\ run = 1
    /\ calls = <<>>
    /\ NoUri

NextSync ==
    \/ GetUsersPlaylists
    \/ ObtainPlaylistId
    \/ GetPlaylistItems
    \/ ObtainNewTracks
    \/ CreatePlaylistOnSpotify
    \/ AddItems
    \/ AddItemsLoop
    \/ SecondRun

SpecSync == InitSync /\ [][NextSync]_vars

----------------------------------------------------------------------------
(* select_rows, obtain_all_urls, convert_url_to_uri, convert_albums_to_tracks *)

\* 'https://open.spotify.com/', line 274
HOST ==
    <<"h", "t", "t", "p", "s", ":", "/", "/", "o", "p", "e", "n", ".", "s",
      "p", "o", "t", "i", "f", "y", ".", "c", "o", "m", "/">>
\* 'https://', line 215
HTTPS == <<"h", "t", "t", "p", "s", ":", "/", "/">>
\* 'spotify:', line 277, and 'spotify:track:', line 249
SPOTIFY == <<"s", "p", "o", "t", "i", "f", "y", ":">>
SPOTIFY_TRACK ==
    <<"s", "p", "o", "t", "i", "f", "y", ":", "t", "r", "a", "c", "k", ":">>
\* 'track' and 'album', lines 234-235
TRACK == <<"t", "r", "a", "c", "k">>
ALBUM == <<"a", "l", "b", "u", "m">>
PLAYLIST == <<"p", "l", "a", "y", "l", "i", "s", "t">>

\* p.TRACK_URL and p.ALBUM_URL: the link patterns of tracks and of albums
TRACK_URL == HOST \o TRACK
ALBUM_URL == HOST \o ALBUM

\* sub in s
Contains(s, sub) == Find(s, sub) > 0

ContainsTrackUrl(message) == Contains(message, TRACK_URL)
ContainsAlbumUrl(message) == Contains(message, ALBUM_URL)
ContainsHttps(element) == Contains(element, HTTPS)
ContainsTrack(x) == Contains(x, TRACK)
ContainsAlbum(x) == Contains(x, ALBUM)

\* select_rows, lines 182-196: the messages with track links, then those
\* with album links
select_rows(df) ==
    (IF TRACKS THEN SelectSeq(df, ContainsTrackUrl) ELSE <<>>)
        \o (IF ALBUMS THEN SelectSeq(df, ContainsAlbumUrl) ELSE <<>>)

\* lines 213-216: the elements of one message that contain 'https://'
UrlsOf(value) == SelectSeq(Split(value, <<" ">>), ContainsHttps)

RECURSIVE obtain_all_urls(_)
\* obtain_all_urls, lines 209-218
obtain_all_urls(column) ==
    IF column = <<>> THEN <<>>
    ELSE UrlsOf(Head(column)) \o obtain_all_urls(Tail(column))

\* line 274, when the host prefix is in the url
sub_string_1(url) == Split(url, HOST)[2]

\* line 275
sub_string_2(url) == Split(sub_string_1(url), <<"/">>)

\* line 276, when sub_string_1 has a '/'
sub_string_3(url) == Split(sub_string_2(url)[2], <<"?">>)[1]

\* [1] at line 274 or at line 276 raises IndexError
UrlRaisesIndexError(url) ==
    IF Len(Split(url, HOST)) < 2 THEN TRUE ELSE Len(sub_string_2(url)) < 2

\* line 277
Uri(url) == SPOTIFY \o sub_string_2(url)[1] \o <<":">> \o sub_string_3(url)

\* line 240: album_uri.split(":")[-1]
AlbumId(album_uri) ==
    LET parts == Split(album_uri, <<":">>) IN parts[Len(parts)]

\* line 249
TrackUri(id) == SPOTIFY_TRACK \o id

\* lines 248-250: the member tracks of one album
MemberUris(items) == [k \in 1..Len(items) |-> TrackUri(items[k])]

\* what the catalog answers to an album request: the ids of the album's
\* tracks (line 248), or, when the lookup fails, an answer without them
T1 == <<"t", "1">>
T2 == <<"t", "2">>
Responses == {<<>>, <<T1>>, <<T1, T2>>}

Lookup(album_uri, ok, items) ==
    [id |-> AlbumId(album_uri), ok |-> ok, items |-> items]

\* line 512
SelectRows ==
    /\ pc = "select"
    /\ spotify_df' = select_rows(messages)
    /\ pc' = "urls"
    /\ UNCHANGED <<formatVars, syncVars, TRACKS, ALBUMS, messages, url_list,
                   uri_list, track_uri_list, album_uri_list, pos, lookups, result>>

\* line 515 and lines 269-270; a DataFrame nothing was appended to has no
\* 'Message' column (line 209)
ObtainAllUrls ==
    /\ pc = "urls"
    /\ \/ /\ TRACKS \/ ALBUMS
          /\ url_list' = obtain_all_urls(spotify_df)
          /\ pc' = "convert"
       \/ /\ ~(TRACKS \/ ALBUMS)
          /\ pc' = "urls_KeyError"
          /\ UNCHANGED url_list
    /\ uri_list' = <<>>
    /\ pos' = 0
    /\ UNCHANGED <<formatVars, syncVars, TRACKS, ALBUMS, messages, spotify_df,
                   track_uri_list, album_uri_list, lookups, result>>

\* lines 273-283, one pass of the loop, and the return without albums
ConvertUrlToUri ==
    /\ pc = "convert"
    /\ \/ /\ pos < Len(url_list)
          /\ UrlRaisesIndexError(url_list[pos + 1])
          /\ pc' = "uri_IndexError"
          /\ UNCHANGED <<uri_list, pos, result>>
       \/ /\ pos < Len(url_list)
          /\ ~UrlRaisesIndexError(url_list[pos + 1])
          /\ uri_list' = Append(uri_list, Uri(url_list[pos + 1]))
          /\ pos' = pos + 1
          /\ pc' = "convert"
          /\ UNCHANGED result
       \/ /\ ~(pos < Len(url_list))
          /\ ALBUMS
          /\ pc' = "albums"
          /\ UNCHANGED <<uri_list, pos, result>>
       \/ /\ ~(pos < Len(url_list))
          /\ ~ALBUMS
          /\ result' = uri_list
          /\ pc' = "uri_done"
          /\ UNCHANGED <<uri_list, pos>>
    /\ UNCHANGED <<formatVars, syncVars, TRACKS, ALBUMS, messages, spotify_df,
                   url_list, track_uri_list, album_uri_list, lookups>>

\* lines 234-236
ConvertAlbumsToTracks ==
    /\ pc = "albums"
    /\ track_uri_list' = SelectSeq(uri_list, ContainsTrack)
    /\ album_uri_list' = SelectSeq(uri_list, ContainsAlbum)
    /\ pos' = 0
    /\ pc' = "albums_for"
    /\ UNCHANGED <<formatVars, syncVars, TRACKS, ALBUMS, messages, spotify_df,
                   url_list, uri_list, lookups, result>>

\* lines 238-255, one pass of the loop, and the return; album_dict['tracks']
\* raises KeyError on an answer without tracks
AlbumsFor ==
    /\ pc = "albums_for"
    /\ \/ /\ pos < Len(album_uri_list)
          /\ \E items \in Responses :
                /\ lookups' = Append(lookups, Lookup(album_uri_list[pos + 1], TRUE, items))
                /\ track_uri_list' = track_uri_list \o MemberUris(items)
          /\ pos' = pos + 1
          /\ pc' = "albums_for"
          /\ UNCHANGED result
       \/ /\ pos < Len(album_uri_list)
          /\ lookups' = Append(lookups, Lookup(album_uri_list[pos + 1], FALSE, <<>>))
          /\ pc' = "albums_KeyError"
          /\ UNCHANGED <<track_uri_list, pos, result>>
       \/ /\ ~(pos < Len(album_uri_list))
          /\ result' = track_uri_list
          /\ pc' = "uri_done"
          /\ UNCHANGED <<track_uri_list, pos, lookups>>
    /\ UNCHANGED <<formatVars, syncVars, TRACKS, ALBUMS, messages, spotify_df,
                   url_list, uri_list, album_uri_list>>

\* the ids of the links and identifiers of the model
ID_ABC == <<"a", "b", "c">>
ID_ZZZ == <<"z", "z", "z">>
ID_YYY == <<"y", "y", "y">>
ID_PPP == <<"p", "p", "p">>
\* ids that happen to contain the words 'track' and 'album'
ID_XTRACK == <<"x">> \o TRACK
ID_XALBUM == <<"x">> \o ALBUM

Link(kind, id) == HOST \o kind \o <<"/">> \o id

\* the bodies of the messages of a conversation
Bodies ==
    { BODY \o <<" ">> \o Link(TRACK, ID_ABC),             \* text and a track link
      Link(TRACK, ID_ABC) \o <<"?", "s", "i", "=", "1">>, \* a link with a query
      Link(ALBUM, ID_ZZZ),                                \* an album link
      Link(TRACK, ID_ABC) \o <<" ">> \o Link(ALBUM, ID_ZZZ),
      Link(TRACK, ID_ABC) \o <<" ">> \o Link(PLAYLIST, ID_PPP),
      Link(TRACK, ID_ABC) \o <<" ">> \o HTTPS \o <<"x", "/", "y">>, \* another host
      Link(TRACK, ID_ABC) \o <<" ">> \o TRACK_URL,        \* no '/' after the kind
      BODY }                                              \* no link

\* the canonical identifiers convert_albums_to_tracks is given
Uris ==
    { SPOTIFY \o TRACK \o <<":">> \o ID_ABC,
      SPOTIFY \o ALBUM \o <<":">> \o ID_ZZZ,
      SPOTIFY \o ALBUM \o <<":">> \o ID_YYY,
      SPOTIFY \o PLAYLIST \o <<":">> \o ID_PPP,
      SPOTIFY \o ALBUM \o <<":">> \o ID_XTRACK,
      SPOTIFY \o TRACK \o <<":">> \o ID_XALBUM }

\* conversations of at most MaxMsgs messages, lists of at most MaxUris identifiers
MaxMsgs == 2
MaxUris == 2

InitUri ==
    /\ pc = "select"
    /\ NoFormat
    /\ NoSync
    /\ TRACKS \in BOOLEAN
    /\ ALBUMS \in BOOLEAN
    /\ messages \in SeqsUpTo(Bodies, MaxMsgs)
    /\ spotify_df = <<>>
    /\ url_list = <<>>
    /\ uri_list = <<>>
    /\ track_uri_list = <<>>
    /\ album_uri_list = <<>>
    /\ pos = 0
    /\ lookups = <<>>
    /\ result = <<>>

NextUri ==
    \/ SelectRows
    \/ ObtainAllUrls
    \/ ConvertUrlToUri
    \/ ConvertAlbumsToTracks
    \/ AlbumsFor

SpecUri == InitUri /\ [][NextUri]_vars

InitAlbums ==
    /\ pc = "albums"
    /\ NoFormat
    /\ NoSync
    /\ TRACKS \in BOOLEAN
    /\ ALBUMS = TRUE
    /\ messages = <<>>
    /\ spotify_df = <<>>
    /\ url_list = <<>>
    /\ uri_list \in SeqsUpTo(Uris, MaxUris)
    /\ track_uri_list = <<>>
    /\ album_uri_list = <<>>
    /\ pos = 0
    /\ lookups = <<>>
    /\ result = <<>>

NextAlbums ==
    \/ ConvertAlbumsToTracks
    \/ AlbumsFor

SpecAlbums == InitAlbums /\ [][NextAlbums]_vars

----------------------------------------------------------------------------
(* Properties of create_playlist (SpecSync)                                *)

\* the payloads of the append requests of the run r, in the order issued
RECURSIVE AppendsOf(_, _)
AppendsOf(cs, r) ==
    IF cs = <<>> THEN <<>>
    ELSE (IF Head(cs).op = "append" /\ Head(cs).run = r
          THEN <<Head(cs).uris>> ELSE <<>>) \o AppendsOf(Tail(cs), r)

RunPayloads == AppendsOf(calls, run)

NoDuplicates(s) == \A j, k \in 1..Len(s) : s[j] = s[k] => j = k

\* n / PAGE rounded up
CeilPages(n) == (n + PAGE - 1) \div PAGE

\* C1: across the append requests of a run no identifier is submitted twice,
\* and none is submitted that the collection already held (current is what
\* the run listed; a collection the run created held nothing).
C1_AppendsDeduplicated ==
    /\ NoDuplicates(Join(RunPayloads))
    /\ Range(Join(RunPayloads)) \cap Range(current) = {}

\* C2: the second of two consecutive runs with the same desired list computes
\* an empty toAdd: it creates nothing and appends nothing.
C2_SecondRunAddsNothing ==
    run = 2 =>
        /\ pc \notin {"create", "created_id", "add", "add_loop"}
        /\ RunPayloads = <<>>
        /\ pc = "done" => tracks = <<>>

\* the second run has ended after a first run that appended several chunks
C2_Witness ==
    /\ run = 2
    /\ pc = "done"
    /\ Len(AppendsOf(calls, 1)) >= 3
    /\ Len(desired) > 2 * PAGE

\* C3: no append request carries more than PAGE identifiers, and the payloads
\* in the order issued make up the list given to add_items_to_playlist.
C3_ChunksReproduceInput ==
    /\ \A k \in 1..Len(RunPayloads) : Len(RunPayloads[k]) <= PAGE
    /\ pc = "add_loop" => Join(RunPayloads) = Slice(tracks, 0, counter * PAGE)
    /\ pc = "done" => Join(RunPayloads) = tracks

\* a list of more than two pages has been submitted
C3_Witness ==
    /\ pc = "done"
    /\ Len(tracks) > 2 * PAGE
    /\ Len(RunPayloads) >= 3
    /\ Join(RunPayloads) = tracks

\* C4: a non-empty toAdd of n identifiers is submitted in exactly
\* ceil(n / PAGE) append requests of 1 to PAGE identifiers each.
C4_ExactlyCeilAppends ==
    (pc = "done" /\ tracks # <<>>) =>
        /\ Len(RunPayloads) = CeilPages(Len(tracks))
        /\ \A k \in 1..Len(RunPayloads) :
              Len(RunPayloads[k]) >= 1 /\ Len(RunPayloads[k]) <= PAGE

\* C5: a run whose toAdd is empty makes no append request.
C5_NoAppendWhenEmpty ==
    (pc = "done" /\ tracks = <<>>) => RunPayloads = <<>>

----------------------------------------------------------------------------
(* Properties of format_messages (SpecFormat)                              *)

\* date-like: the text before the first comma has at most 8 characters and
\* exactly two '/'
DatePrefixed(fragment) ==
    LET k == Find(fragment, COMMA)
        prefix == IF k = 0 THEN fragment ELSE SubSeq(fragment, 1, k - 1)
    IN  Len(prefix) <= 8 /\ Count(prefix, "/") = 2

\* the fragments format_messages is given
Input == replace_enters(raw_text)

InFormatMessages == pc \in {"fm_while", "fm_peek", "fm_done", "fm_IndexError"}

\* C6: format_messages never reads past the end of the sequence.
C6_NoOutOfRange == pc # "fm_IndexError"

\* C7: on a transcript whose first fragment is date-prefixed, format_messages
\* returns, and returns as many records as there are date-prefixed fragments.
C7_RecordCount ==
    (/\ pc \in {"fm_done", "fm_IndexError"}
     /\ Input # <<>>
     /\ DatePrefixed(Input[1])) =>
        /\ pc = "fm_done"
        /\ Len(text) = Cardinality({k \in 1..Len(Input) : DatePrefixed(Input[k])})

\* C8: when every fragment is date-prefixed, format_messages returns its
\* input unchanged.
C8_UnwrappedIsNoOp ==
    (InFormatMessages /\ \A k \in 1..Len(Input) : DatePrefixed(Input[k])) =>
        /\ pc # "fm_IndexError"
        /\ text = Input

\* a transcript of several messages, one with a date of 8 characters, returned
C8_Witness ==
    /\ pc = "fm_done"
    /\ Len(Input) >= 3
    /\ \A k \in 1..Len(Input) : DatePrefixed(Input[k])
    /\ \E k \in 1..Len(Input) : Find(Input[k], COMMA) = 9
    /\ text = Input

\* C9: every record format_messages returns begins with a date.
C9_RecordsStartWithDate ==
    pc = "fm_done" => \A k \in 1..Len(text) : DatePrefixed(text[k])

----------------------------------------------------------------------------
(* Properties of convert_to_dataframe (SpecTokenize)                       *)

\* C10: convert_to_dataframe raises no error, and returns one row for each
\* record.
C10_NoErrorOneRowEach ==
    /\ pc # "df_IndexError"
    /\ pc = "df_done" => Len(rows) = Len(text)

\* the text of s after its first occurrence of sep
After(s, sep) == SubSeq(s, Find(s, sep) + Len(sep), Len(s))

\* the text of s before its first occurrence of sep
Before(s, sep) == SubSeq(s, 1, Find(s, sep) - 1)

\* the record has a ', ', a ' - ' after it and a ': ' after that
HasSeparators(record) ==
    /\ Find(record, SEP1) > 0
    /\ Find(After(record, SEP1), SEP2) > 0
    /\ Find(After(After(record, SEP1), SEP2), SEP3) > 0

\* the fields cut at the first occurrence of each separator
FirstFields(record) ==
    LET rest1 == After(record, SEP1)
        rest2 == After(rest1, SEP2)
    IN  [date |-> Before(record, SEP1), time |-> Before(rest1, SEP2),
         sender |-> Before(rest2, SEP3), message |-> After(rest2, SEP3)]

\* date + ', ' + time + ' - ' + sender + ': ' + body
Rebuild(row) ==
    row.date \o SEP1 \o row.time \o SEP2 \o row.sender \o SEP3 \o row.message

Occurrences(s, sep) == {k \in 1..Len(s) : OccursAt(s, sep, k)}

\* C11: the fields of a record with the three separators are cut at the
\* first occurrence of each, the body is verbatim, and the fields joined
\* with the separators give back the record.
C11_FirstSeparatorOnly ==
    \A k \in 1..Len(rows) :
        HasSeparators(text[k]) =>
            /\ rows[k] = FirstFields(text[k])
            /\ Rebuild(rows[k]) = text[k]

\* C12, as claimed: a record with no separator occurring twice round-trips.
C12_RoundTripNoExtra ==
    \A k \in 1..Len(rows) :
        (\A sep \in {SEP1, SEP2, SEP3} : Cardinality(Occurrences(text[k], sep)) <= 1)
            => Rebuild(rows[k]) = text[k]

\* each separator occurs once: ', ', then ' - ', then ': ', none overlapping
OnceInOrder(record) ==
    /\ \A sep \in {SEP1, SEP2, SEP3} : Cardinality(Occurrences(record, sep)) = 1
    /\ Find(record, SEP1) + Len(SEP1) <= Find(record, SEP2)
    /\ Find(record, SEP2) + Len(SEP2) <= Find(record, SEP3)

\* C12, amended: a record in which each separator occurs exactly once, in
\* the order ', ', ' - ', ': ' and without overlap, is tokenized without an
\* error and round-trips.
C12_RoundTripOnceInOrder ==
    \A k \in 1..Len(text) :
        OnceInOrder(text[k]) =>
            /\ ~(pc = "df_IndexError" /\ i + 1 = k)
            /\ k <= Len(rows) => Rebuild(rows[k]) = text[k]

\* two such records, one with an empty sender, have been tokenized
C12_Witness ==
    /\ pc = "df_done"
    /\ Len(rows) = 2
    /\ \A k \in 1..2 : OnceInOrder(text[k])
    /\ rows[1].sender = <<>>
    /\ rows[2].sender # <<>>

----------------------------------------------------------------------------
(* Properties of convert_url_to_uri (SpecUri) and of                       *)
(* convert_albums_to_tracks (SpecAlbums)                                   *)

\* the kind of a canonical identifier spotify:kind:id
Kind(uri) == Split(uri, <<":">>)[2]

IsTrackKind(uri) == Kind(uri) = TRACK
IsAlbumKind(uri) == Kind(uri) = ALBUM

\* the link has the host prefix and a '/' after it
WellFormedLink(url) ==
    /\ Contains(url, HOST)
    /\ Contains(After(url, HOST), <<"/">>)

\* C13: a link without the host prefix or without a '/' after it is skipped:
\* the conversion raises no error and emits the identifier of every
\* well-formed link of the list.
C13_MalformedLinksSkipped ==
    /\ pc # "uri_IndexError"
    /\ pc \in {"albums", "albums_for", "albums_KeyError", "uri_done"} =>
          LET good == SelectSeq(url_list, WellFormedLink)
          IN  uri_list = [k \in 1..Len(good) |-> Uri(good[k])]

\* C14: every identifier convert_url_to_uri returns is of kind track.
C14_OnlyTracksReturned ==
    pc = "uri_done" => \A k \in 1..Len(result) : IsTrackKind(result[k])

\* C15: convert_albums_to_tracks looks up exactly the identifiers of kind
\* album, in order, and returns the identifiers of kind track unchanged
\* followed by one track identifier per member the catalog returned, and no
\* identifier of kind album.
C15_AlbumsExpanded ==
    pc = "uri_done" =>
        LET albums == SelectSeq(uri_list, IsAlbumKind)
        IN  /\ [k \in 1..Len(lookups) |-> lookups[k].id]
                  = [k \in 1..Len(albums) |-> AlbumId(albums[k])]
            /\ result = SelectSeq(uri_list, IsTrackKind)
                  \o Join([k \in 1..Len(lookups) |-> MemberUris(lookups[k].items)])
            /\ \A k \in 1..Len(result) : ~IsAlbumKind(result[k])

\* C16: a failed lookup does not abort the expansion: the function returns,
\* and has looked up every album of the list.
C16_FailedLookupIsolated ==
    /\ pc # "albums_KeyError"
    /\ pc = "uri_done" =>
          /\ Len(lookups) = Len(album_uri_list)
          /\ \A k \in 1..Len(lookups) :
                lookups[k].ok =>
                    \A j \in 1..Len(lookups[k].items) :
                        \E m \in 1..Len(result) : result[m] = TrackUri(lookups[k].items[j])

----------------------------------------------------------------------------

\* the indices in calls of the calls op of run r
CallsOf(r, op) == {k \in 1..Len(calls) : calls[k].run = r /\ calls[k].op = op}

NameExists == \E k \in 1..Len(playlists) : playlists[k].name = PLAYLIST_NAME

C17_CallOrder ==
    \A r \in 1..2 :
        /\ Cardinality(CallsOf(r, "create")) <= 1
        /\ \A a \in CallsOf(r, "append") :
              /\ \A c \in CallsOf(r, "create") : c < a
              /\ CallsOf(r, "create") = {} =>
                    \E m \in CallsOf(r, "list_members") :
                        m < a /\ calls[m].id = calls[a].id
              /\ \E k \in 1..Len(playlists) :
                    /\ playlists[k].id = calls[a].id
                    /\ playlists[k].name = PLAYLIST_NAME

C17_Step ==
    LET created == /\ Len(calls') = Len(calls) + 1
                   /\ calls'[Len(calls')].op = "create"
    IN  /\ created => ~NameExists
        /\ pc = "start" /\ pc' # "start" => (pc' = "create" <=> ~NameExists)
        /\ pc = "create" /\ pc' # "create" => created

\* C17: in one create_playlist run the playlist is created exactly when no
\* playlist with the configured name is listed, at most once and before any
\* append; when the name is listed, create is not called and the members are
\* listed before any append; every append goes to the playlist found or
\* created in this run.
C17_RemoteCallOrder == []C17_CallOrder /\ [][C17_Step]_vars

\* a first run which created the playlist and appended to it, and a second
\* run which found it and listed its members
C17_Witness ==
    /\ pc = "done"
    /\ run = 2
    /\ CallsOf(1, "create") # {}
    /\ \E a \in CallsOf(1, "append") : calls[a].uris # <<>>
    /\ CallsOf(2, "list_members") # {}

IsPrefix(s, t) == Len(s) <= Len(t) /\ SubSeq(t, 1, Len(s)) = s

C18_Done ==
    pc = "done" =>
        \E k \in 1..Len(playlists) :
            /\ playlists[k].id = playlist_id
            /\ playlists[k].name = PLAYLIST_NAME
            /\ Range(desired) \subseteq Range(playlists[k].uris)

C18_Step ==
    \A k \in 1..Len(playlists) :
        \E j \in 1..Len(playlists') :
            /\ playlists'[j].id = playlists[k].id
            /\ playlists'[j].name = playlists[k].name
            /\ IsPrefix(playlists[k].uris, playlists'[j].uris)

\* C18: a run only adds: when a create_playlist run is done, every identifier
\* of the desired list is a member of the playlist, and no step of a run
\* removes or replaces a member of any playlist: the members before a step
\* are a prefix of the members after it.
C18_OnlyAdds == []C18_Done /\ [][C18_Step]_vars

\* a finished run which appended to a playlist holding a member that is not
\* in the desired list
C18_Witness ==
    /\ pc = "done"
    /\ \E k \in 1..Len(playlists) :
          /\ playlists[k].id = playlist_id
          /\ Range(playlists[k].uris) \ Range(desired) # {}
    /\ \E a \in CallsOf(run, "append") : calls[a].uris # <<>>

C19_Content == InFormatMessages => Join(text) = Join(Input)

C19_Step ==
    /\ InFormatMessages
    /\ pc' \in {"fm_while", "fm_peek", "fm_done", "fm_IndexError"}
    => /\ i' >= i
       /\ text' # text =>
             \E k \in 1..(Len(text) - 1) :
                 text' = SubSeq(text, 1, k - 1) \o <<text[k] \o text[k + 1]>>
                             \o SubSeq(text, k + 2, Len(text))

\* C19: at every step of format_messages and in its result the fragments of
\* text joined in order equal the input fragments joined in order; a step
\* which changes text joins two adjacent fragments, and i never decreases.
C19_ReassemblyPreservesContent == []C19_Content /\ [][C19_Step]_vars

\* format_messages has merged a fragment after moving the cursor
C19_Witness ==
    /\ InFormatMessages
    /\ Len(text) < Len(Input)
    /\ i > 0

Init == InitFormat \/ InitTokenize \/ InitSync \/ InitUri \/ InitAlbums

Next == NextFormat \/ NextSync \/ NextUri

Spec == Init /\ [][Next]_vars

====
